---- MODULE Spec2Model ----
(***************************************************************************)
(* Model of the socket layer of Link-backend (src/unnamed/part_000):       *)
(* the userSockets presence map, the messages table as the handlers'       *)
(* queries see it, every socket.on handler and every db.query callback.    *)
(*                                                                         *)
(* db.query is asynchronous: a handler issues the query and returns; the   *)
(* statement takes effect and its callback runs in a later step.  Between  *)
(* the two, any other handler or callback may run.  Queries of different   *)
(* handler invocations complete in any order, and each may fail (err); a   *)
(* failed statement leaves the table as it was.                            *)
(*                                                                         *)
(* A run has two users, two sockets, at most three handler invocations     *)
(* (EventIds) and at most MaxMsgs sendMessage events.  Events carry any    *)
(* payload over these sets: the server trusts none of the ids it is sent.  *)
(***************************************************************************)
EXTENDS Integers, Sequences, FiniteSets

\* ---------------------------------------------------------------- bounds
\* sendMessage events over a whole run, hence rows and message ids
MaxMsgs == 1
\* the handler invocations of a run, numbered in arrival order
EventIds == {1, 2, 3}
\* user ids (keys of userSockets) and socket ids; a socket id is never reused
Users == {1, 2}
Conns == {1, 2}
MsgIds == 1..MaxMsgs

\* userSockets[userId] of a user without an entry is undefined
NoConn == 0
\* no key of userSockets
NoUser == 0

VARIABLES
    userSockets,  \* user id -> socket id, NoConn when the key is absent
    messages,     \* the rows of table messages, message_id = position
    handlers,     \* every invocation of a registerUser, sendMessage, messageRead,
                  \* typing or stopTyping handler, in arrival order: its captured
                  \* locals, the query it waits for or the place it returned (pc)
                  \* and whether that query failed (err: it stopped at pc); a
                  \* registerUser invocation also notes how many rows the table
                  \* held when the event arrived (rows)
    emitted,      \* every io.to(..).emit(..) call made so far
    closed        \* the sockets whose "disconnect" handler has run, each with
                  \* the key that handler deleted (NoUser when it deleted none)

vars == <<userSockets, messages, handlers, emitted, closed>>

\* ------------------------------------------------------------ the store

\* the bulk update with the wrong column in its WHERE clause
MarkDeliveredBySender(rows, userId) ==
    [i \in 1..Len(rows) |->
        IF rows[i].sender_id = userId /\ ~rows[i].delivered
        THEN [rows[i] EXCEPT !.delivered = TRUE]
        ELSE rows[i]]

\* a bulk update that sets delivered to "is addressed to this user" on every row
MarkDeliveredExact(rows, userId) ==
    [i \in 1..Len(rows) |->
        [rows[i] EXCEPT !.delivered = (rows[i].receiver_id = userId)]]

\* UPDATE messages SET delivered = TRUE WHERE receiver_id = ? AND delivered = FALSE
MarkDelivered(rows, userId) ==
    [i \in 1..Len(rows) |->
        IF rows[i].receiver_id = userId /\ ~rows[i].delivered
        THEN [rows[i] EXCEPT !.delivered = TRUE]
        ELSE rows[i]]

\* SELECT * FROM messages WHERE receiver_id = ? AND delivered = TRUE AND is_read = FALSE
FetchBacklog(rows, userId) ==
    {i \in 1..Len(rows) :
        rows[i].receiver_id = userId /\ rows[i].delivered /\ ~rows[i].is_read}

\* INSERT INTO messages (sender_id, receiver_id, message_text, timestamp, delivered)
InsertMessage(rows, senderId, receiverId, delivered) ==
    Append(rows, [sender_id |-> senderId, receiver_id |-> receiverId,
                  delivered |-> delivered, is_read |-> FALSE])

\* SELECT COUNT(*) AS unreadCount FROM messages WHERE receiver_id = ? AND is_read = FALSE
CountUnread(rows, receiverId) ==
    Cardinality({i \in 1..Len(rows) :
        rows[i].receiver_id = receiverId /\ ~rows[i].is_read})

\* UPDATE messages SET is_read = TRUE WHERE message_id IN (?)
MarkRead(rows, messageIds) ==
    [i \in 1..Len(rows) |->
        IF i \in messageIds
        THEN [rows[i] EXCEPT !.is_read = TRUE]
        ELSE rows[i]]

\* ------------------------------------------------------------- helpers

Handler(kind, conn, pc) ==
    [kind |-> kind, conn |-> conn, pc |-> pc, err |-> FALSE,
     userId |-> NoUser, senderId |-> NoUser, receiverId |-> NoUser, tempId |-> 0,
     senderSocketId |-> NoConn, receiverSocketId |-> NoConn,
     messageId |-> 0, messageIds |-> {}, rows |-> 0]

\* the emit calls handler invocation ev has made so far
EmittedBy(ev) == {e \in emitted : e.ev = ev}

\* io.to(to).emit(type, payload) by handler invocation ev, as the nth emit call
\* of the callback that is running; seq numbers the calls of ev in call order
Emit(ev, nth, to, type, messageId) ==
    [ev |-> ev, seq |-> Cardinality(EmittedBy(ev)) + nth, to |-> to, type |-> type,
     messageId |-> messageId, tempId |-> 0, messageIds |-> {},
     senderId |-> NoUser, receiverId |-> NoUser, unreadCount |-> 0]

\* the client's tempId: opaque to the server, unique per message
TempIdOf(ev) == 100 + ev

IsClosed(c) == \E d \in closed : d.conn = c

NumSends == Cardinality({e \in 1..Len(handlers) : handlers[e].kind = "sendMessage"})

\* db.query(sql, params, callback) of module ../db: the query handler invocation
\* ev issued at pc and that has neither completed nor failed.  Any pending
\* query may be the next one to complete, whatever the order of issue.
Pending(ev, kind, pc) ==
    /\ ev \in 1..Len(handlers)
    /\ handlers[ev].kind = kind
    /\ handlers[ev].pc = pc
    /\ ~handlers[ev].err

Init ==
    /\ userSockets = [u \in Users |-> NoConn]
    /\ messages = <<>>
    /\ handlers = <<>>
    /\ emitted = {}
    /\ closed = {}

\* ------------------------------------------------------- registerUser

\* a registerUser handler without the comparison with socket.id
RegisterUserAlways(c, userId) ==
    /\ ~IsClosed(c)
    /\ Len(handlers) + 1 \in EventIds
    /\ userSockets' = [userSockets EXCEPT ![userId] = c]
    /\ handlers' = Append(handlers,
           [Handler("registerUser", c, "markDelivered") EXCEPT
               !.userId = userId, !.rows = Len(messages)])
    /\ UNCHANGED <<messages, emitted, closed>>

\* a registerUser handler that keeps the binding a user already has
RegisterUserIfAbsent(c, userId) ==
    /\ ~IsClosed(c)
    /\ Len(handlers) + 1 \in EventIds
    /\ IF userSockets[userId] = NoConn
       THEN /\ userSockets' = [userSockets EXCEPT ![userId] = c]
            /\ handlers' = Append(handlers,
                   [Handler("registerUser", c, "markDelivered") EXCEPT
                       !.userId = userId, !.rows = Len(messages)])
       ELSE /\ UNCHANGED userSockets
            /\ handlers' = Append(handlers,
                   [Handler("registerUser", c, "suppressed") EXCEPT
                       !.userId = userId, !.rows = Len(messages)])
    /\ UNCHANGED <<messages, emitted, closed>>

\* socket.on("registerUser"): the synchronous part
RegisterUser(c, userId) ==
    /\ ~IsClosed(c)
    /\ Len(handlers) + 1 \in EventIds
    /\ IF userSockets[userId] # c
       THEN /\ userSockets' = [userSockets EXCEPT ![userId] = c]
            /\ handlers' = Append(handlers,
                   [Handler("registerUser", c, "markDelivered") EXCEPT
                       !.userId = userId, !.rows = Len(messages)])
       ELSE /\ UNCHANGED userSockets
            /\ handlers' = Append(handlers,
                   [Handler("registerUser", c, "suppressed") EXCEPT
                       !.userId = userId, !.rows = Len(messages)])
    /\ UNCHANGED <<messages, emitted, closed>>

\* callback of the UPDATE .. SET delivered = TRUE query
MarkDeliveredDone(ev, ok) ==
    /\ Pending(ev, "registerUser", "markDelivered")
    /\ IF ok
       THEN /\ messages' = MarkDelivered(messages, handlers[ev].userId)
            /\ handlers' = [handlers EXCEPT ![ev].pc = "fetchBacklog"]
       ELSE /\ UNCHANGED messages
            /\ handlers' = [handlers EXCEPT ![ev].err = TRUE]
    /\ UNCHANGED <<userSockets, emitted, closed>>

\* a forEach without the test of senderSocketId
BacklogEmitsAll(ev, results) ==
    {Emit(ev, Cardinality({i \in results : i <= m}),
          userSockets[messages[m].sender_id], "messageDelivered", m) :
        m \in results}

\* results.forEach: one messageDelivered per fetched row whose sender is bound,
\* in the order of the rows
BacklogEmits(ev, results) ==
    LET online == {i \in results : userSockets[messages[i].sender_id] # NoConn}
    IN {Emit(ev, Cardinality({i \in online : i <= m}),
             userSockets[messages[m].sender_id], "messageDelivered", m) :
           m \in online}

\* callback of the SELECT of delivered-but-unread messages
FetchBacklogDone(ev, ok) ==
    /\ Pending(ev, "registerUser", "fetchBacklog")
    /\ IF ok
       THEN /\ emitted' = emitted \cup
                   BacklogEmits(ev, FetchBacklog(messages, handlers[ev].userId))
            /\ handlers' = [handlers EXCEPT ![ev].pc = "done"]
       ELSE /\ UNCHANGED emitted
            /\ handlers' = [handlers EXCEPT ![ev].err = TRUE]
    /\ UNCHANGED <<userSockets, messages, closed>>

\* -------------------------------------------------------- sendMessage

\* socket.on("sendMessage"): the synchronous part
SendMessage(c, senderId, receiverId) ==
    /\ ~IsClosed(c)
    /\ Len(handlers) + 1 \in EventIds
    /\ NumSends < MaxMsgs
    /\ handlers' = Append(handlers,
           [Handler("sendMessage", c, "insert") EXCEPT
               !.senderId = senderId, !.receiverId = receiverId,
               !.tempId = TempIdOf(Len(handlers) + 1),
               !.receiverSocketId = userSockets[receiverId],
               !.senderSocketId = userSockets[senderId]])
    /\ UNCHANGED <<userSockets, messages, emitted, closed>>

\* an INSERT callback that leaves the messageSaved emit out
InsertDoneNoAck(ev, ok) ==
    /\ Pending(ev, "sendMessage", "insert")
    /\ LET h == handlers[ev]
       IN IF ok
          THEN /\ messages' = InsertMessage(messages, h.senderId, h.receiverId,
                                            h.receiverSocketId # NoConn)
               /\ handlers' = [handlers EXCEPT
                      ![ev].messageId = Len(messages) + 1,
                      ![ev].pc = IF h.receiverSocketId # NoConn
                                 THEN "countUnread" ELSE "done"]
          ELSE /\ UNCHANGED messages
               /\ handlers' = [handlers EXCEPT ![ev].err = TRUE]
    /\ UNCHANGED <<userSockets, emitted, closed>>

\* an INSERT callback that computes the delivered flag from userSockets as it
\* is when the insert takes effect
InsertDoneLive(ev, ok) ==
    /\ Pending(ev, "sendMessage", "insert")
    /\ LET h == handlers[ev]
           messageId == Len(messages) + 1
       IN IF ok
          THEN /\ messages' = InsertMessage(messages, h.senderId, h.receiverId,
                                            userSockets[h.receiverId] # NoConn)
               /\ emitted' = emitted \cup
                      {[Emit(ev, 1, h.senderSocketId, "messageSaved", messageId)
                           EXCEPT !.tempId = h.tempId]}
               /\ handlers' = [handlers EXCEPT
                      ![ev].messageId = messageId,
                      ![ev].pc = IF h.receiverSocketId # NoConn
                                 THEN "countUnread" ELSE "done"]
          ELSE /\ UNCHANGED <<messages, emitted>>
               /\ handlers' = [handlers EXCEPT ![ev].err = TRUE]
    /\ UNCHANGED <<userSockets, closed>>

\* an INSERT callback that goes on to the count query whether or not the
\* receiver had a socket
InsertDoneAlwaysCount(ev, ok) ==
    /\ Pending(ev, "sendMessage", "insert")
    /\ LET h == handlers[ev]
           messageId == Len(messages) + 1
       IN IF ok
          THEN /\ messages' = InsertMessage(messages, h.senderId, h.receiverId,
                                            h.receiverSocketId # NoConn)
               /\ emitted' = emitted \cup
                      {[Emit(ev, 1, h.senderSocketId, "messageSaved", messageId)
                           EXCEPT !.tempId = h.tempId]}
               /\ handlers' = [handlers EXCEPT
                      ![ev].messageId = messageId,
                      ![ev].pc = "countUnread"]
          ELSE /\ UNCHANGED <<messages, emitted>>
               /\ handlers' = [handlers EXCEPT ![ev].err = TRUE]
    /\ UNCHANGED <<userSockets, closed>>

\* an INSERT callback that drops the sender's entry when the insert fails
InsertDoneUnbindOnErr(ev, ok) ==
    /\ Pending(ev, "sendMessage", "insert")
    /\ LET h == handlers[ev]
           messageId == Len(messages) + 1
       IN IF ok
          THEN /\ messages' = InsertMessage(messages, h.senderId, h.receiverId,
                                            h.receiverSocketId # NoConn)
               /\ emitted' = emitted \cup
                      {[Emit(ev, 1, h.senderSocketId, "messageSaved", messageId)
                           EXCEPT !.tempId = h.tempId]}
               /\ handlers' = [handlers EXCEPT
                      ![ev].messageId = messageId,
                      ![ev].pc = IF h.receiverSocketId # NoConn
                                 THEN "countUnread" ELSE "done"]
               /\ UNCHANGED userSockets
          ELSE /\ UNCHANGED <<messages, emitted>>
               /\ handlers' = [handlers EXCEPT ![ev].err = TRUE]
               /\ userSockets' = [userSockets EXCEPT ![h.senderId] = NoConn]
    /\ UNCHANGED closed

\* callback of the INSERT query
InsertDone(ev, ok) ==
    /\ Pending(ev, "sendMessage", "insert")
    /\ LET h == handlers[ev]
           messageId == Len(messages) + 1
       IN IF ok
          THEN /\ messages' = InsertMessage(messages, h.senderId, h.receiverId,
                                            h.receiverSocketId # NoConn)
               /\ emitted' = emitted \cup
                      {[Emit(ev, 1, h.senderSocketId, "messageSaved", messageId)
                           EXCEPT !.tempId = h.tempId]}
               /\ handlers' = [handlers EXCEPT
                      ![ev].messageId = messageId,
                      ![ev].pc = IF h.receiverSocketId # NoConn
                                 THEN "countUnread" ELSE "done"]
          ELSE /\ UNCHANGED <<messages, emitted>>
               /\ handlers' = [handlers EXCEPT ![ev].err = TRUE]
    /\ UNCHANGED <<userSockets, closed>>

\* callback of the SELECT COUNT(*) query
CountUnreadDone(ev, ok) ==
    /\ Pending(ev, "sendMessage", "countUnread")
    /\ LET h == handlers[ev]
       IN IF ok
          THEN /\ emitted' = emitted \cup
                      {[Emit(ev, 1, h.receiverSocketId, "unreadMessagesCount", 0)
                           EXCEPT !.unreadCount = CountUnread(messages, h.receiverId)],
                       [Emit(ev, 2, h.receiverSocketId, "receiveMessage", h.messageId)
                           EXCEPT !.senderId = h.senderId],
                       Emit(ev, 3, h.senderSocketId, "messageDelivered", h.messageId)}
               /\ handlers' = [handlers EXCEPT ![ev].pc = "done"]
          ELSE /\ UNCHANGED emitted
               /\ handlers' = [handlers EXCEPT ![ev].err = TRUE]
    /\ UNCHANGED <<userSockets, messages, closed>>

\* -------------------------------------------------------- messageRead

\* a messageRead handler without the check of messageIds
MessageReadUnchecked(present, messageIds, senderId, receiverId) ==
    /\ \E c \in Conns : ~IsClosed(c)
    /\ Len(handlers) + 1 \in EventIds
    /\ handlers' = Append(handlers,
           [Handler("messageRead", NoConn, "markRead") EXCEPT
               !.messageIds = messageIds, !.senderId = senderId,
               !.receiverId = receiverId,
               !.senderSocketId = userSockets[senderId]])
    /\ UNCHANGED <<userSockets, messages, emitted, closed>>

\* socket.on("messageRead"): present = FALSE is a payload without messageIds.
\* The handler never reads socket.id: it runs for an event on any open socket.
MessageRead(present, messageIds, senderId, receiverId) ==
    /\ \E c \in Conns : ~IsClosed(c)
    /\ Len(handlers) + 1 \in EventIds
    /\ IF ~present \/ Cardinality(messageIds) = 0
       THEN handlers' = Append(handlers, Handler("messageRead", NoConn, "rejected"))
       ELSE handlers' = Append(handlers,
                [Handler("messageRead", NoConn, "markRead") EXCEPT
                    !.messageIds = messageIds, !.senderId = senderId,
                    !.receiverId = receiverId,
                    !.senderSocketId = userSockets[senderId]])
    /\ UNCHANGED <<userSockets, messages, emitted, closed>>

\* an UPDATE is_read callback that also tells the receiver's socket
MarkReadDoneEcho(ev, ok) ==
    /\ Pending(ev, "messageRead", "markRead")
    /\ LET h == handlers[ev]
           payload(nth, to) == [Emit(ev, nth, to, "messageRead", 0)
                                   EXCEPT !.receiverId = h.receiverId,
                                          !.messageIds = h.messageIds]
       IN IF ok
          THEN /\ messages' = MarkRead(messages, h.messageIds)
               /\ emitted' = emitted \cup
                      (IF h.senderSocketId # NoConn
                       THEN {payload(1, h.senderSocketId)} ELSE {})
                      \cup {payload(2, userSockets[h.receiverId])}
               /\ handlers' = [handlers EXCEPT ![ev].pc = "done"]
          ELSE /\ UNCHANGED <<messages, emitted>>
               /\ handlers' = [handlers EXCEPT ![ev].err = TRUE]
    /\ UNCHANGED <<userSockets, closed>>

\* an UPDATE is_read callback that emits before it looks at err
MarkReadDoneIgnoringErr(ev, ok) ==
    /\ Pending(ev, "messageRead", "markRead")
    /\ LET h == handlers[ev]
       IN /\ emitted' = emitted \cup
                 IF h.senderSocketId # NoConn
                 THEN {[Emit(ev, 1, h.senderSocketId, "messageRead", 0)
                           EXCEPT !.receiverId = h.receiverId,
                                  !.messageIds = h.messageIds]}
                 ELSE {}
          /\ IF ok
             THEN /\ messages' = MarkRead(messages, h.messageIds)
                  /\ handlers' = [handlers EXCEPT ![ev].pc = "done"]
             ELSE /\ UNCHANGED messages
                  /\ handlers' = [handlers EXCEPT ![ev].err = TRUE]
    /\ UNCHANGED <<userSockets, closed>>

\* callback of the UPDATE .. SET is_read = TRUE query
MarkReadDone(ev, ok) ==
    /\ Pending(ev, "messageRead", "markRead")
    /\ LET h == handlers[ev]
       IN IF ok
          THEN /\ messages' = MarkRead(messages, h.messageIds)
               /\ emitted' = emitted \cup
                      IF h.senderSocketId # NoConn
                      THEN {[Emit(ev, 1, h.senderSocketId, "messageRead", 0)
                                EXCEPT !.receiverId = h.receiverId,
                                       !.messageIds = h.messageIds]}
                      ELSE {}
               /\ handlers' = [handlers EXCEPT ![ev].pc = "done"]
          ELSE /\ UNCHANGED <<messages, emitted>>
               /\ handlers' = [handlers EXCEPT ![ev].err = TRUE]
    /\ UNCHANGED <<userSockets, closed>>

\* ------------------------------------------------- typing / stopTyping

\* a relay that looks the sender up instead of the receiver
RelayToSender(type, senderId, receiverId) ==
    /\ \E c \in Conns : ~IsClosed(c)
    /\ Len(handlers) + 1 \in EventIds
    /\ handlers' = Append(handlers,
           [Handler(type, NoConn, "done") EXCEPT
               !.senderId = senderId, !.receiverId = receiverId,
               !.receiverSocketId = userSockets[senderId]])
    /\ emitted' = emitted \cup
           IF userSockets[senderId] # NoConn
           THEN {[Emit(Len(handlers) + 1, 1, userSockets[senderId], type, 0)
                     EXCEPT !.senderId = senderId, !.receiverId = receiverId]}
           ELSE {}
    /\ UNCHANGED <<userSockets, messages, closed>>

\* socket.on("typing") and socket.on("stopTyping"): type names the event
Relay(type, senderId, receiverId) ==
    /\ \E c \in Conns : ~IsClosed(c)
    /\ Len(handlers) + 1 \in EventIds
    /\ handlers' = Append(handlers,
           [Handler(type, NoConn, "done") EXCEPT
               !.senderId = senderId, !.receiverId = receiverId,
               !.receiverSocketId = userSockets[receiverId]])
    /\ emitted' = emitted \cup
           IF userSockets[receiverId] # NoConn
           THEN {[Emit(Len(handlers) + 1, 1, userSockets[receiverId], type, 0)
                     EXCEPT !.senderId = senderId, !.receiverId = receiverId]}
           ELSE {}
    /\ UNCHANGED <<userSockets, messages, closed>>

Typing(senderId, receiverId) == Relay("typing", senderId, receiverId)

StopTyping(senderId, receiverId) == Relay("stopTyping", senderId, receiverId)

\* --------------------------------------------------------- disconnect

\* the users whose entry holds socket id c
BoundTo(c) == {u \in Users : userSockets[u] = c}

\* the users some registerUser event on socket c named
RegisteredOn(c) ==
    {handlers[e].userId : e \in {i \in 1..Len(handlers) :
        handlers[i].kind = "registerUser" /\ handlers[i].conn = c}}

\* a disconnect handler that deletes the keys registered on the socket without
\* comparing the stored socket id
DisconnectByUser(c) ==
    /\ ~IsClosed(c)
    /\ userSockets' = [u \in Users |->
           IF u \in RegisteredOn(c) THEN NoConn ELSE userSockets[u]]
    /\ closed' = closed \cup {[conn |-> c, deleted |-> NoUser]}
    /\ UNCHANGED <<messages, handlers, emitted>>

\* a disconnect handler whose loop deletes the first key it meets without
\* comparing the stored socket id
DisconnectFirstKey(c) ==
    /\ ~IsClosed(c)
    /\ LET keys == {u \in Users : userSockets[u] # NoConn}
       IN IF keys = {}
          THEN /\ UNCHANGED userSockets
               /\ closed' = closed \cup {[conn |-> c, deleted |-> NoUser]}
          ELSE \E u \in keys :
               /\ userSockets' = [userSockets EXCEPT ![u] = NoConn]
               /\ closed' = closed \cup {[conn |-> c, deleted |-> u]}
    /\ UNCHANGED <<messages, handlers, emitted>>

\* socket.on("disconnect"): the for..in loop deletes the first key it meets
\* whose value is socket.id and breaks; which key is first depends on the
\* keys' enumeration order, so any one of them may be the one deleted
Disconnect(c) ==
    /\ ~IsClosed(c)
    /\ IF BoundTo(c) = {}
       THEN /\ UNCHANGED userSockets
            /\ closed' = closed \cup {[conn |-> c, deleted |-> NoUser]}
       ELSE \E u \in BoundTo(c) :
            /\ userSockets' = [userSockets EXCEPT ![u] = NoConn]
            /\ closed' = closed \cup {[conn |-> c, deleted |-> u]}
    /\ UNCHANGED <<messages, handlers, emitted>>

Next ==
    \/ \E c \in Conns, u \in Users : RegisterUser(c, u)
    \/ \E ev \in EventIds, ok \in BOOLEAN : MarkDeliveredDone(ev, ok)
    \/ \E ev \in EventIds, ok \in BOOLEAN : FetchBacklogDone(ev, ok)
    \/ \E c \in Conns, s \in Users, r \in Users : SendMessage(c, s, r)
    \/ \E ev \in EventIds, ok \in BOOLEAN : InsertDone(ev, ok)
    \/ \E ev \in EventIds, ok \in BOOLEAN : CountUnreadDone(ev, ok)
    \/ \E ids \in SUBSET MsgIds, s \in Users, r \in Users : MessageRead(TRUE, ids, s, r)
    \/ \E s \in Users, r \in Users : MessageRead(FALSE, {}, s, r)
    \/ \E ev \in EventIds, ok \in BOOLEAN : MarkReadDone(ev, ok)
    \/ \E c \in Conns : Disconnect(c)

Spec == Init /\ [][Next]_vars

\* typing and stopTyping read userSockets and emit, nothing else; the
\* specification with them among the events
NextRelay ==
    \/ Next
    \/ \E s \in Users, r \in Users : Typing(s, r)
    \/ \E s \in Users, r \in Users : StopTyping(s, r)

SpecRelay == Init /\ [][NextRelay]_vars

\* ================================================================ claims

\* the registerUser invocations that named user u, duplicates included
RegsOf(u) ==
    {e \in 1..Len(handlers) :
        handlers[e].kind = "registerUser" /\ handlers[e].userId = u}

\* the most recent registerUser invocation that named user u
IsLastReg(u, e) == e \in RegsOf(u) /\ \A f \in RegsOf(u) : f <= e

\* C1: stale-disconnect protection.  When register(u) was handled on socket A
\* and later on another socket B, the last registration of u, then once A has
\* disconnected and while B has not, userSockets still maps u to B.
C1_StaleDisconnectKeepsNewer ==
    \A u \in Users : \A e1, e2 \in RegsOf(u) :
        (/\ e1 < e2
         /\ IsLastReg(u, e2)
         /\ handlers[e1].conn # handlers[e2].conn
         /\ IsClosed(handlers[e1].conn)
         /\ ~IsClosed(handlers[e2].conn))
        => userSockets[u] = handlers[e2].conn

\* register(u) on A, register(u) on B, then the disconnect of A, which found
\* no key holding A (it had been superseded), and u is still bound to B
C1_Witness ==
    \E u \in Users : \E e1, e2 \in RegsOf(u) :
        /\ e1 < e2
        /\ IsLastReg(u, e2)
        /\ handlers[e1].conn # handlers[e2].conn
        /\ [conn |-> handlers[e1].conn, deleted |-> NoUser] \in closed
        /\ ~IsClosed(handlers[e2].conn)
        /\ userSockets[u] = handlers[e2].conn

\* C2: no row has is_read = TRUE while delivered = FALSE.
C2_ReadImpliesDelivered ==
    \A m \in 1..Len(messages) : messages[m].is_read => messages[m].delivered

\* the sendMessage invocation whose insert generated message id m was handled
\* while the receiver had no entry in userSockets
SentOffline(m) ==
    \E es \in 1..Len(handlers) :
        /\ handlers[es].kind = "sendMessage"
        /\ handlers[es].messageId = m
        /\ handlers[es].receiverSocketId = NoConn

\* ev is the receiver's first registration that arrived after row m was stored
IsNextRegAfter(m, ev) ==
    /\ handlers[ev].kind = "registerUser"
    /\ handlers[ev].userId = messages[m].receiver_id
    /\ handlers[ev].rows >= m
    /\ \A f \in RegsOf(handlers[ev].userId) : handlers[f].rows >= m => ev <= f

\* the messageDelivered calls about message m that the step adds, addressed
\* to the socket userSockets holds for the message's sender
NewDeliveredToSender(m) ==
    {e \in emitted' \ emitted :
        /\ e.type = "messageDelivered"
        /\ e.messageId = m
        /\ e.to = userSockets[messages[m].sender_id]}

\* a message sent while its receiver was offline is stored undelivered
StoredUndelivered ==
    \A es \in EventIds :
        (InsertDone(es, TRUE) /\ handlers[es].receiverSocketId = NoConn)
        => ~messages'[Len(messages')].delivered

\* C3 as claimed: a message sent while the receiver was offline is stored with
\* delivered = FALSE; when the receiver's next registration completes with
\* both queries successful the row has delivered = TRUE and, if the sender is
\* online then, that registration emits exactly one messageDelivered for it
\* to the sender's socket.
C3_AsClaimed ==
    [][/\ StoredUndelivered
       /\ \A ev \in EventIds : FetchBacklogDone(ev, TRUE) =>
              \A m \in 1..Len(messages) :
                  (SentOffline(m) /\ IsNextRegAfter(m, ev)) =>
                      /\ messages'[m].delivered
                      /\ userSockets[messages[m].sender_id] # NoConn
                         => Cardinality(NewDeliveredToSender(m)) = 1]_vars

\* C3 amended: the same, the messageDelivered being emitted when the message
\* is still unread at the time the registration fetches the backlog.
C3_BacklogDelivered ==
    [][/\ StoredUndelivered
       /\ \A ev \in EventIds : FetchBacklogDone(ev, TRUE) =>
              \A m \in 1..Len(messages) :
                  (SentOffline(m) /\ IsNextRegAfter(m, ev)) =>
                      /\ messages'[m].delivered
                      /\ (userSockets[messages[m].sender_id] # NoConn
                              /\ ~messages[m].is_read)
                         => /\ Cardinality(NewDeliveredToSender(m)) = 1
                            /\ \A e \in NewDeliveredToSender(m) : e.ev = ev]_vars

\* a message from one user to another, sent while the receiver was offline,
\* delivered by the receiver's next registration, which told the sender
C3_Witness ==
    \E ev \in 1..Len(handlers) : \E m \in 1..Len(messages) :
        /\ SentOffline(m)
        /\ IsNextRegAfter(m, ev)
        /\ handlers[ev].pc = "done" /\ ~handlers[ev].err
        /\ messages[m].sender_id # messages[m].receiver_id
        /\ messages[m].delivered
        /\ \E e \in EmittedBy(ev) :
               /\ e.type = "messageDelivered"
               /\ e.messageId = m
               /\ e.to = userSockets[messages[m].sender_id]
               /\ e.to # NoConn

\* the handler invocation the step has just recorded
Arrived == handlers'[Len(handlers')]

\* handler invocation ev never gets further: its record stays as it is and
\* no emit call carries its number
Inert(ev) ==
    /\ handlers'[ev] = handlers[ev]
    /\ ~handlers[ev].err
    /\ {e \in emitted' : e.ev = ev} = {}

\* C4: a registerUser(u) event on the socket userSockets already holds for u
\* changes neither userSockets nor the table, emits nothing and issues no
\* query, now or later; a registration that does issue the bulk update is one
\* that changed the binding of u.
C4_DuplicateSuppressed ==
    [][/\ \A c \in Conns, u \in Users :
              RegisterUser(c, u) =>
                  IF userSockets[u] = c
                  THEN /\ UNCHANGED <<userSockets, messages, emitted>>
                       /\ Arrived.pc = "suppressed"
                  ELSE /\ userSockets'[u] = c
                       /\ Arrived.pc = "markDelivered"
       /\ \A ev \in 1..Len(handlers) :
              handlers[ev].pc = "suppressed" => Inert(ev)]_vars

\* a registerUser event was handled on the socket already bound to its user
C4_Witness ==
    \E ev \in 1..Len(handlers) :
        /\ handlers[ev].kind = "registerUser"
        /\ handlers[ev].pc = "suppressed"
        /\ userSockets[handlers[ev].userId] = handlers[ev].conn

\* the emit calls of type type made by handler invocation ev
EmitsOfType(ev, type) == {e \in EmittedBy(ev) : e.type = type}

\* C5: for a sendMessage whose receiver was online, in the emit calls of that
\* invocation messageSaved (to the sender's socket) comes before
\* unreadMessagesCount, receiveMessage and messageDelivered, and
\* unreadMessagesCount comes before receiveMessage (both to the receiver's
\* socket); once both queries have succeeded each of the four was emitted once.
C5_SendOrder ==
    \A ev \in 1..Len(handlers) :
        handlers[ev].kind = "sendMessage" =>
            LET h == handlers[ev]
                saved == EmitsOfType(ev, "messageSaved")
                unread == EmitsOfType(ev, "unreadMessagesCount")
                receive == EmitsOfType(ev, "receiveMessage")
                delivered == EmitsOfType(ev, "messageDelivered")
            IN /\ \A e \in unread \cup receive \cup delivered :
                      \E s \in saved : s.seq < e.seq /\ s.to = h.senderSocketId
               /\ \A r \in receive :
                      /\ r.to = h.receiverSocketId
                      /\ \E u \in unread : u.seq < r.seq /\ u.to = r.to
               /\ \A d \in delivered : d.to = h.senderSocketId
               /\ (h.pc = "done" /\ ~h.err /\ h.receiverSocketId # NoConn) =>
                      /\ Cardinality(saved) = 1
                      /\ Cardinality(unread) = 1
                      /\ Cardinality(receive) = 1
                      /\ Cardinality(delivered) = 1

\* a message between two online users on different sockets went all the way
C5_Witness ==
    \E ev \in 1..Len(handlers) :
        /\ handlers[ev].kind = "sendMessage"
        /\ handlers[ev].pc = "done" /\ ~handlers[ev].err
        /\ handlers[ev].receiverSocketId # NoConn
        /\ handlers[ev].senderSocketId # NoConn
        /\ handlers[ev].senderSocketId # handlers[ev].receiverSocketId
        /\ Cardinality(EmittedBy(ev)) = 4

\* C6: a messageRead event whose messageIds is missing or empty issues no
\* query and emits nothing, now or later, and changes neither the table nor
\* userSockets.
C6_EmptyReadRejected ==
    [][/\ \A present \in BOOLEAN, s \in Users, r \in Users :
              MessageRead(present, {}, s, r) =>
                  /\ UNCHANGED <<userSockets, messages, emitted>>
                  /\ Arrived.pc = "rejected"
       /\ \A ev \in 1..Len(handlers) :
              handlers[ev].pc = "rejected" => Inert(ev)]_vars

\* a messageRead event without message ids was handled
C6_Witness ==
    \E ev \in 1..Len(handlers) :
        handlers[ev].kind = "messageRead" /\ handlers[ev].pc = "rejected"

\* C7: every sendMessage whose insert succeeded has exactly one messageSaved
\* emit, addressed to the socket the event arrived on, carrying the event's
\* tempId and the id its insert generated.
C7_SavedToOwnSocket ==
    \A ev \in 1..Len(handlers) :
        (handlers[ev].kind = "sendMessage" /\ handlers[ev].messageId # 0) =>
            /\ Cardinality(EmitsOfType(ev, "messageSaved")) = 1
            /\ \A e \in EmitsOfType(ev, "messageSaved") :
                   /\ e.to = handlers[ev].conn
                   /\ e.tempId = handlers[ev].tempId
                   /\ e.messageId = handlers[ev].messageId

\* an emit call reaches a socket when it names one that has not disconnected
Reaches(e) == e.to # NoConn /\ ~IsClosed(e.to)

\* the rows an emitted receipt is about
About(e) ==
    IF e.type = "messageDelivered" THEN {e.messageId}
    ELSE IF e.type = "messageRead" THEN e.messageIds \cap (1..Len(messages))
    ELSE {}

\* C8: every messageDelivered or messageRead about message m that reaches a
\* socket reaches the socket userSockets holds, at that moment, for the user
\* stored as sender_id of m.
C8_ReceiptToSender ==
    [][\A e \in emitted' \ emitted :
          Reaches(e) =>
              \A m \in About(e) : e.to = userSockets[messages[m].sender_id]]_vars

\* the messageRead call a successful read-mark of invocation ev makes
ReadReceipt(ev) ==
    [ev |-> ev, seq |-> 1, to |-> handlers[ev].senderSocketId, type |-> "messageRead",
     messageId |-> 0, tempId |-> 0, messageIds |-> handlers[ev].messageIds,
     senderId |-> NoUser, receiverId |-> handlers[ev].receiverId, unreadCount |-> 0]

\* C9 as claimed: when the read-mark of a messageRead event succeeds, then if
\* the named sender had a socket when the event was handled exactly one
\* messageRead with the event's receiverId and messageIds is emitted to it,
\* otherwise nothing is emitted; and no emit goes to the receiver's socket.
C9_AsClaimed ==
    [][\A ev \in EventIds : MarkReadDone(ev, TRUE) =>
          /\ emitted' \ emitted =
                 IF handlers[ev].senderSocketId # NoConn THEN {ReadReceipt(ev)} ELSE {}
          /\ \A e \in emitted' \ emitted :
                 e.to # userSockets[handlers[ev].receiverId]]_vars

\* C9 amended: a messageRead invocation emits nothing until its read-mark
\* has succeeded; from then on its emit calls are exactly the one messageRead
\* with the event's receiverId and messageIds, to the socket the named sender
\* had when the event was handled, or none when the sender had no socket.
C9_ReadReceipt ==
    \A ev \in 1..Len(handlers) :
        handlers[ev].kind = "messageRead" =>
            EmittedBy(ev) =
                IF /\ handlers[ev].pc = "done"
                   /\ handlers[ev].senderSocketId # NoConn
                THEN {ReadReceipt(ev)} ELSE {}

\* both cases at once: a read whose sender was online and whose receipt was
\* emitted, and a read whose sender was offline
C9_Witness ==
    \E ev \in 1..Len(handlers) :
        /\ handlers[ev].kind = "messageRead"
        /\ handlers[ev].pc = "done"
        /\ handlers[ev].senderSocketId # NoConn
        /\ handlers[ev].senderId # handlers[ev].receiverId
        /\ userSockets[handlers[ev].receiverId] # NoConn
        /\ EmittedBy(ev) = {ReadReceipt(ev)}

\* C10: a handler invocation whose query failed has emitted nothing, except
\* that a sendMessage whose count query failed has emitted its messageSaved.
C10_FailureStopsEmits ==
    \A ev \in 1..Len(handlers) :
        handlers[ev].err =>
            IF handlers[ev].pc = "countUnread"
            THEN \A e \in EmittedBy(ev) : e.type = "messageSaved"
            ELSE EmittedBy(ev) = {}

\* a read-mark failed for an event whose sender was online, and a count
\* query failed after its messageSaved
C10_Witness ==
    /\ \E ev \in 1..Len(handlers) :
           /\ handlers[ev].err
           /\ handlers[ev].pc = "markRead"
           /\ handlers[ev].senderSocketId # NoConn
    /\ \E ev \in 1..Len(handlers) :
           /\ handlers[ev].err
           /\ handlers[ev].pc = "countUnread"
           /\ EmittedBy(ev) # {}

\* C11: no user is bound to a socket whose disconnect handler has run,
\* whatever registerUser events that socket issued before.
C11_ClosedUnbound ==
    \A c \in Conns : IsClosed(c) => BoundTo(c) = {}

\* the entry of every bound user holds the socket of the most recent
\* registerUser event that named the user
LastRegistrationBound ==
    \A u \in Users :
        userSockets[u] # NoConn =>
            \E e \in RegsOf(u) : IsLastReg(u, e) /\ handlers[e].conn = userSockets[u]

\* C12: last registered connection wins.  A registerUser(u) event on socket
\* c leaves u bound to c whatever u was bound to and changes no other entry;
\* and whenever u has an entry, it holds the socket of the most recent
\* registerUser(u) event.
C12_LastRegistrationWins ==
    [][/\ \A c \in Conns, u \in Users :
              RegisterUser(c, u) =>
                  /\ userSockets'[u] = c
                  /\ \A v \in Users \ {u} : userSockets'[v] = userSockets[v]
       /\ LastRegistrationBound']_vars

\* a user registered on one socket and then on another, both still open, and
\* is bound to the second
C12_Witness ==
    \E u \in Users : \E e1, e2 \in RegsOf(u) :
        /\ e1 < e2
        /\ IsLastReg(u, e2)
        /\ handlers[e1].conn # handlers[e2].conn
        /\ closed = {}
        /\ userSockets[u] = handlers[e2].conn

\* the row the step has just stored
NewRow == messages'[Len(messages')]

\* C13 as claimed: at the step where the insert of a sendMessage takes effect,
\* the new row has delivered = TRUE exactly when the receiver has an entry in
\* userSockets at that step.
C13_AsClaimed ==
    [][\A ev \in EventIds : InsertDone(ev, TRUE) =>
          (NewRow.delivered <=> userSockets[handlers[ev].receiverId] # NoConn)]_vars

\* C13 amended: the handler reads the receiver's entry when the sendMessage
\* event is handled, and at the step where its insert takes effect the new
\* row has delivered = TRUE exactly when that entry existed then, whatever
\* userSockets holds for the receiver at the insert.
C13_DeliveredIsSnapshot ==
    [][/\ (Len(handlers') > Len(handlers) /\ Arrived.kind = "sendMessage") =>
              Arrived.receiverSocketId = userSockets[Arrived.receiverId]
       /\ \A ev \in EventIds : InsertDone(ev, TRUE) =>
              /\ Len(messages') = Len(messages) + 1
              /\ NewRow.receiver_id = handlers[ev].receiverId
              /\ NewRow.delivered <=> handlers[ev].receiverSocketId # NoConn]_vars

\* a message sent while the receiver was offline and stored, undelivered,
\* after the receiver had registered on a socket that is still open
C13_Witness ==
    \E ev \in 1..Len(handlers) : \E f \in 1..Len(handlers) :
        /\ handlers[ev].kind = "sendMessage"
        /\ handlers[ev].messageId # 0
        /\ handlers[ev].receiverSocketId = NoConn
        /\ ev < f
        /\ handlers[f].kind = "registerUser"
        /\ handlers[f].userId = handlers[ev].receiverId
        /\ handlers[f].rows < handlers[ev].messageId
        /\ handlers[f].pc = "markDelivered"
        /\ closed = {}
        /\ userSockets[handlers[ev].receiverId] = handlers[f].conn
        /\ ~messages[handlers[ev].messageId].delivered

\* C14: a sendMessage handled while the receiver had no entry in userSockets
\* issues no count query, and its only emit call is the messageSaved to the
\* sender's socket (made once its insert has succeeded): it emits no
\* unreadMessagesCount, receiveMessage or messageDelivered to any socket.
C14_OfflineSendOnlySaved ==
    \A ev \in 1..Len(handlers) :
        (handlers[ev].kind = "sendMessage" /\ handlers[ev].receiverSocketId = NoConn) =>
            /\ handlers[ev].pc \in {"insert", "done"}
            /\ \A e \in EmittedBy(ev) :
                   e.type = "messageSaved" /\ e.to = handlers[ev].senderSocketId
            /\ Cardinality(EmittedBy(ev)) = IF handlers[ev].messageId # 0 THEN 1 ELSE 0

\* a message from an online sender to another user who was offline was
\* stored, and the receiver has registered since
C14_Witness ==
    \E ev \in 1..Len(handlers) :
        /\ handlers[ev].kind = "sendMessage"
        /\ handlers[ev].receiverSocketId = NoConn
        /\ handlers[ev].senderSocketId # NoConn
        /\ handlers[ev].senderId # handlers[ev].receiverId
        /\ handlers[ev].pc = "done"
        /\ handlers[ev].messageId # 0
        /\ userSockets[handlers[ev].receiverId] # NoConn
        /\ Cardinality(EmittedBy(ev)) = 1

\* C15: delivered is monotonic.  No step, of any registerUser, sendMessage,
\* messageRead, typing, stopTyping or disconnect handler or of any query
\* callback, removes a row or sets the delivered flag of a row back to FALSE.
C15_DeliveredMonotonic ==
    [][\A m \in 1..Len(messages) :
          messages[m].delivered => (m <= Len(messages') /\ messages'[m].delivered)]_vars

\* a delivered row is still delivered after the bulk update of another
\* user's registration, which arrived when the row was already stored
C15_Witness ==
    \E m \in 1..Len(messages) : \E ev \in 1..Len(handlers) :
        /\ messages[m].delivered
        /\ handlers[ev].kind = "registerUser"
        /\ handlers[ev].userId # messages[m].receiver_id
        /\ handlers[ev].rows >= m
        /\ handlers[ev].pc \in {"fetchBacklog", "done"}

\* C16: the disconnect of a socket no user is bound to (it never registered
\* a user, or every user it registered has been bound elsewhere or unbound
\* since) leaves userSockets and the table unchanged, issues no query and
\* emits nothing.
C16_UnboundDisconnectNoOp ==
    [][\A c \in Conns :
          (Disconnect(c) /\ BoundTo(c) = {}) =>
              UNCHANGED <<userSockets, messages, handlers, emitted>>]_vars

\* a socket no user was bound to has disconnected while a user is bound to
\* another socket
C16_Witness ==
    \E d \in closed :
        /\ d.deleted = NoUser
        /\ \E u \in Users : userSockets[u] # NoConn /\ userSockets[u] # d.conn

\* the one emit call of a typing or stopTyping event that is being handled
Relayed(type, s, r) ==
    [ev |-> Len(handlers) + 1, seq |-> 1, to |-> userSockets[r], type |-> type,
     messageId |-> 0, tempId |-> 0, messageIds |-> {},
     senderId |-> s, receiverId |-> r, unreadCount |-> 0]

\* C17: typing and stopTyping are pure relays.  When the receiver has an
\* entry in userSockets, the handler makes exactly one emit call, of the same
\* type with the same senderId and receiverId, to the socket of that entry;
\* when the receiver has none it makes no emit call; in both cases it issues
\* no query and leaves the table and userSockets unchanged.
C17_PureRelay ==
    [][\A type \in {"typing", "stopTyping"}, s \in Users, r \in Users :
          (Len(handlers') > Len(handlers) /\ Relay(type, s, r)) =>
              /\ UNCHANGED <<userSockets, messages>>
              /\ emitted \subseteq emitted'
              /\ emitted' \ emitted =
                     IF userSockets[r] # NoConn THEN {Relayed(type, s, r)} ELSE {}
              /\ Arrived.kind = type /\ Arrived.pc = "done"
              /\ \A ev \in 1..Len(handlers) : handlers'[ev] = handlers[ev]]_vars

\* a typing event from one user to another, online, was relayed, and a
\* stopTyping event to a user without a socket was dropped
C17_Witness ==
    /\ \E ev \in 1..Len(handlers) :
           /\ handlers[ev].kind = "typing"
           /\ handlers[ev].receiverSocketId # NoConn
           /\ handlers[ev].senderId # handlers[ev].receiverId
           /\ Cardinality(EmittedBy(ev)) = 1
    /\ \E ev \in 1..Len(handlers) :
           /\ handlers[ev].kind = "stopTyping"
           /\ handlers[ev].receiverSocketId = NoConn
           /\ EmittedBy(ev) = {}

\* the rows addressed to user u that are delivered and unread and whose
\* sender has an entry in userSockets
DueReceipts(u) ==
    {m \in 1..Len(messages) :
        /\ messages[m].receiver_id = u
        /\ messages[m].delivered
        /\ ~messages[m].is_read
        /\ userSockets[messages[m].sender_id] # NoConn}

\* C18: within one non-duplicate registerUser(u), the backlog fetch is issued
\* only by the step at which the bulk delivered-mark has taken effect (every
\* row addressed to u is then delivered); the invocation emits nothing before
\* its fetch completes, and when it does the invocation emits exactly one
\* messageDelivered for each delivered-but-unread row addressed to u whose
\* sender has an entry in userSockets at that step, to the socket of that
\* entry, and nothing else.
C18_BacklogReconciliation ==
    [][/\ \A ev \in 1..Len(handlers) :
              handlers[ev].kind = "registerUser" =>
                  /\ (handlers[ev].pc # "fetchBacklog" /\ handlers'[ev].pc = "fetchBacklog") =>
                         /\ MarkDeliveredDone(ev, TRUE)
                         /\ \A m \in 1..Len(messages) :
                                messages[m].receiver_id = handlers[ev].userId
                                    => messages'[m].delivered
                  /\ ~FetchBacklogDone(ev, TRUE) =>
                         {e \in emitted' : e.ev = ev} = EmittedBy(ev)
       /\ \A ev \in EventIds : FetchBacklogDone(ev, TRUE) =>
              LET new == emitted' \ emitted
              IN /\ \A e \in new :
                        /\ e.ev = ev
                        /\ e.type = "messageDelivered"
                        /\ e.messageId \in DueReceipts(handlers[ev].userId)
                        /\ e.to = userSockets[messages[e.messageId].sender_id]
                 /\ \A m \in DueReceipts(handlers[ev].userId) :
                        Cardinality({e \in new : e.messageId = m}) = 1]_vars

\* a registration has completed and told another user's socket that a
\* message to the registering user is delivered
C18_Witness ==
    \E ev \in 1..Len(handlers) :
        /\ handlers[ev].kind = "registerUser"
        /\ handlers[ev].pc = "done"
        /\ EmittedBy(ev) # {}
        /\ \A e \in EmittedBy(ev) :
               /\ e.type = "messageDelivered"
               /\ messages[e.messageId].receiver_id = handlers[ev].userId
               /\ messages[e.messageId].sender_id # handlers[ev].userId
               /\ e.to # NoConn

\* no handler invocation has a query pending
Quiescent ==
    \A ev \in 1..Len(handlers) :
        handlers[ev].err \/ handlers[ev].pc \in {"done", "suppressed", "rejected"}

\* C19: in every state in which no query is pending, no query has failed and
\* user u has an entry in userSockets, every row addressed to u has
\* delivered = TRUE.
C19_ReconciledWhenQuiescent ==
    (Quiescent /\ \A ev \in 1..Len(handlers) : ~handlers[ev].err) =>
        \A u \in Users :
            userSockets[u] # NoConn =>
                \A m \in 1..Len(messages) :
                    messages[m].receiver_id = u => messages[m].delivered

\* C20: over a whole run, at most one messageDelivered addressed to a socket
\* is emitted for any message id.
C20_DeliveredReportedOnce ==
    \A m \in MsgIds :
        Cardinality({e \in emitted :
            e.type = "messageDelivered" /\ e.messageId = m /\ e.to # NoConn}) <= 1

\* C21: userSockets is written only by the registerUser and disconnect
\* handlers.  The step of a sendMessage, messageRead, typing or stopTyping
\* handler and the step of every query callback, whether its query succeeded
\* or failed, leave userSockets as it was.
C21_RegistryFrame ==
    [][/\ (Len(handlers') > Len(handlers) /\ Arrived.kind # "registerUser")
              => UNCHANGED userSockets
       /\ (Len(handlers') = Len(handlers) /\ handlers' # handlers)
              => UNCHANGED userSockets
       /\ userSockets' # userSockets =>
              \/ \E c \in Conns, u \in Users : RegisterUser(c, u)
              \/ \E c \in Conns : Disconnect(c)]_vars

\* the insert of a bound sender's message failed, a typing or stopTyping
\* event was handled, and the sender is still bound to the same socket
C21_Witness ==
    /\ \E ev \in 1..Len(handlers) :
           /\ handlers[ev].kind = "sendMessage"
           /\ handlers[ev].err
           /\ handlers[ev].senderSocketId # NoConn
           /\ userSockets[handlers[ev].senderId] = handlers[ev].senderSocketId
    /\ \E ev \in 1..Len(handlers) : handlers[ev].kind \in {"typing", "stopTyping"}

\* a registerUser event of the receiver arrived after sendMessage invocation
\* ev was handled; every registration that arrives after the row of ev is
\* inserted is one of these
RegisteredSince(ev) ==
    \E f \in RegsOf(handlers[ev].receiverId) : f > ev

\* C22: a row with delivered = TRUE reached an online receiver.  At the step
\* where a sendMessage whose row was stored with delivered = TRUE makes its
\* emit calls, its receiveMessage goes to the socket userSockets holds for
\* the receiver at that step, unless a registerUser event of the receiver
\* has arrived since the send event was handled (so also when one has arrived
\* since the row was inserted).
C22_DeliveredReachedReceiver ==
    [][\A ev \in EventIds : CountUnreadDone(ev, TRUE) =>
          LET m == handlers[ev].messageId
          IN messages[m].delivered =>
                 \/ \E e \in emitted' \ emitted :
                        /\ e.type = "receiveMessage"
                        /\ e.messageId = m
                        /\ e.to # NoConn
                        /\ e.to = userSockets[messages[m].receiver_id]
                 \/ RegisteredSince(ev)]_vars

====
